---- MODULE Spec2Model ----
(***************************************************************************)
(* A model of the Wikiloc adapter of hiking-mcp:                           *)
(*   src/src/mcp_hiking/api/wikiloc.py  (fetcher, statistics extractor,    *)
(*       geometry decoder, track-file writer, search orchestrator)         *)
(*   src/src/mcp_hiking/server.py       (the get_route_geometry tool)      *)
(*                                                                         *)
(* Text is modelled as a sequence of tokens (words, " " and the            *)
(* non-breaking space NBSP), so that strip() and replace('\xa0', ' ') are  *)
(* computed and not assumed.  Python values are records tagged by "type";  *)
(* the outcome of a call is a record tagged by "kind": "return" with a     *)
(* value, or "raise" with the exception class.                             *)
(***************************************************************************)
EXTENDS Naturals, Integers, Sequences, FiniteSets, TLC

VARIABLES op, pc, log, inflight, max_results, data, trails, arg, result, fs

vars == <<op, pc, log, inflight, max_results, data, trails, arg, result, fs>>

(***************************************************************************)
(* Bounds of the model.                                                    *)
(***************************************************************************)
MaxCands == 2
MaxResults == 3
MaxItems == 2
MaxLines == 2

(***************************************************************************)
(* Text.                                                                   *)
(***************************************************************************)
SP == " "
NBSP == "\\xa0"
IsSpace(c) == c \in {SP, NBSP, "\n"}

RECURSIVE LStrip(_)
LStrip(t) == IF t = <<>> THEN <<>> ELSE IF IsSpace(Head(t)) THEN LStrip(Tail(t)) ELSE t

RECURSIVE RStrip(_)
RStrip(t) ==
    IF t = <<>> THEN <<>>
    ELSE IF IsSpace(t[Len(t)]) THEN RStrip(SubSeq(t, 1, Len(t) - 1)) ELSE t

\* str.strip(): leading and trailing whitespace removed; U+00A0 is whitespace.
Strip(t) == RStrip(LStrip(t))

\* str.replace('\xa0', ' ')
ReplaceNbsp(t) == [i \in 1..Len(t) |-> IF t[i] = NBSP THEN SP ELSE t[i]]

\* "needle" in text, at the granularity of tokens
Contains(t, needle) == \E i \in 1..Len(t) : t[i] = needle

Min(a, b) == IF a <= b THEN a ELSE b

(***************************************************************************)
(* Python values and call outcomes.                                        *)
(***************************************************************************)
None == [type |-> "none"]
Return(v) == [kind |-> "return", value |-> v]
Raise(e) == [kind |-> "raise", exc |-> e]
NoResult == [kind |-> "pending"]
NoArg == [type |-> "none"]

(***************************************************************************)
(* wikiloc.py:12-22  constants                                             *)
(***************************************************************************)
WIKILOC_API_BASE == <<"https://es.wikiloc.com/wikiloc/find.do">>
GOOGLE_MAPS_LOCATION == "https://www.google.com/maps/search/?api=1&query="

difficulty_translation_wrong ==
    [k \in {<<"Fácil">>, <<"Moderado">>, <<"Difícil">>, <<"Muy", SP, "Difícil">>,
            <<"Solo", SP, "expertos">>} |->
        CASE k = <<"Fácil">> -> <<"Easy">>
          [] k = <<"Moderado">> -> <<"Moderate">>
          [] k = <<"Difícil">> -> <<"Hard">>
          [] k = <<"Muy", SP, "Difícil">> -> <<"Hard">>
          [] k = <<"Solo", SP, "expertos">> -> <<"Experts Only">>]

difficulty_translation ==
    [k \in {<<"Fácil">>, <<"Moderado">>, <<"Difícil">>, <<"Muy", SP, "Difícil">>,
            <<"Solo", SP, "expertos">>} |->
        CASE k = <<"Fácil">> -> <<"Easy">>
          [] k = <<"Moderado">> -> <<"Moderate">>
          [] k = <<"Difícil">> -> <<"Hard">>
          [] k = <<"Muy", SP, "Difícil">> -> <<"Very Hard">>
          [] k = <<"Solo", SP, "expertos">> -> <<"Experts Only">>]

(***************************************************************************)
(* wikiloc.py:24-41  make_wikiloc_request                                  *)
(*                                                                         *)
(* A Wire is what the network does with the one GET of a call:             *)
(*   net    "error": connect/read error or timeout, "ok": a response       *)
(*   status the response's status code                                     *)
(*   ctype  the Content-Type header, as tokens ("" when the header is      *)
(*          missing: headers.get("Content-Type", ""))                      *)
(*   body   [valid: the body parses as JSON, json: the value it parses to, *)
(*           text: the body as a str value]                                *)
(***************************************************************************)
IsSuccess(status) == 200 <= status /\ status <= 299

\* a request that never checks the status
RaiseForStatusSkipped(status) == Return(None)

\* response.raise_for_status(): raises HTTPStatusError unless 2xx
RaiseForStatus(status) == IF IsSuccess(status) THEN Return(None) ELSE Raise("HTTPStatusError")

\* response.json(): raises on a body that is not JSON
ResponseJson(body) == IF body.valid THEN Return(body.json) ELSE Raise("JSONDecodeError")

\* lines 31-38, the body of the try block
RequestTryBody(wire) ==
    IF wire.net = "error" THEN Raise("RequestError")
    ELSE IF RaiseForStatus(wire.status).kind = "raise" THEN RaiseForStatus(wire.status)
    ELSE IF Contains(wire.ctype, "application/json") THEN ResponseJson(wire.body)
    ELSE Return(wire.body.text)

\* lines 29-41: except Exception -> None
MakeWikilocRequest(wire) ==
    IF RequestTryBody(wire).kind = "raise" THEN Return(None) ELSE RequestTryBody(wire)

(***************************************************************************)
(* wikiloc.py:59-87  extract_trail_statistics                              *)
(*                                                                         *)
(* A document: [section: a <section id="trail-data"> exists,               *)
(*              items: the elements matched by "dl.data-items .d-item"     *)
(*                     were the section there]                             *)
(* An item: [dt: [present, text], dd: [present, nodes]]; a node of a dd is *)
(* a text node, a <span> or another element (an <a>), each with its text.  *)
(***************************************************************************)
TextNode(t) == [tag |-> "text", text |-> t]
Span(t) == [tag |-> "span", text |-> t]
Anchor(t) == [tag |-> "a", text |-> t]
NoDt == [present |-> FALSE, text |-> <<>>]
Dt(t) == [present |-> TRUE, text |-> t]
NoDd == [present |-> FALSE, nodes |-> <<>>]
Dd(ns) == [present |-> TRUE, nodes |-> ns]
DItem(dt, dd) == [dt |-> dt, dd |-> dd]

\* Tag.get_text(strip=True): every string of the element stripped, the empty
\* ones dropped, the rest concatenated
RECURSIVE GetTextStrip(_)
GetTextStrip(nodes) ==
    IF nodes = <<>> THEN <<>> ELSE Strip(Head(nodes).text) \o GetTextStrip(Tail(nodes))

\* dd.find("span"): index of the first <span>, 0 when there is none
RECURSIVE FindSpanFrom(_, _)
FindSpanFrom(nodes, i) ==
    IF i > Len(nodes) THEN 0
    ELSE IF nodes[i].tag = "span" THEN i ELSE FindSpanFrom(nodes, i + 1)

FindSpan(nodes) == FindSpanFrom(nodes, 1)

\* line 74
StatKey(item) == ReplaceNbsp(Strip(item.dt.text))

\* the value without the TrailRank special case
StatValuePlain(item) == ReplaceNbsp(GetTextStrip(item.dd.nodes))

\* lines 77-83
StatValue(item) ==
    IF Contains(StatKey(item), "TrailRank")
    THEN IF FindSpan(item.dd.nodes) # 0
         THEN Strip(item.dd.nodes[FindSpan(item.dd.nodes)].text)
         ELSE <<>>
    ELSE ReplaceNbsp(GetTextStrip(item.dd.nodes))

\* data[key] = value
DictSet(d, k, v) == [x \in DOMAIN d \cup {k} |-> IF x = k THEN v ELSE d[x]]

EmptyDict == [x \in {} |-> <<>>]

\* lines 68-85, the loop over the items
RECURSIVE StatsLoop(_, _)
StatsLoop(items, d) ==
    IF items = <<>> THEN d
    ELSE IF ~(Head(items).dt.present /\ Head(items).dd.present)
         THEN StatsLoop(Tail(items), d)
         ELSE StatsLoop(Tail(items), DictSet(d, StatKey(Head(items)), StatValue(Head(items))))

ExtractTrailStatistics(doc) ==
    IF ~doc.section THEN EmptyDict ELSE StatsLoop(doc.items, EmptyDict)

(***************************************************************************)
(* wikiloc.py:43-57  format_trail                                          *)
(*                                                                         *)
(* A trail is a dict: a function from keys (texts) to values (texts).      *)
(* A rendered entry is the sequence of its "Label: value" lines.           *)
(***************************************************************************)
Key(s) == <<s>>
KDificultad == <<"Dificultad", SP, "técnica">>
KDistancia == Key("Distancia")
KDesnivelPos == <<"Desnivel", SP, "positivo">>
KDesnivelNeg == <<"Desnivel", SP, "negativo">>
KAltMax == <<"Altitud", SP, "máxima">>
KAltMin == <<"Altitud", SP, "mínima">>
KTrailRank == Key("TrailRank")
KTipo == <<"Tipo", SP, "de", SP, "ruta">>

\* dict.get(key, default)
DictGet(d, k, default) == IF k \in DOMAIN d THEN d[k] ELSE default

\* line 45
FormatDifficulty(trail) ==
    DictGet(difficulty_translation, DictGet(trail, KDificultad, <<>>), <<"Unknown">>)

\* the subscripts trail['...'] of the template, in the order it evaluates them
TemplateKeys ==
    <<Key("title"), Key("url"), KDistancia, KDesnivelPos, KDesnivelNeg,
      KAltMax, KTrailRank, KAltMin, KTipo>>

\* index in TemplateKeys of the first key the trail lacks, 0 when it has all
RECURSIVE FirstMissingFrom(_, _)
FirstMissingFrom(trail, i) ==
    IF i > Len(TemplateKeys) THEN 0
    ELSE IF TemplateKeys[i] \notin DOMAIN trail THEN i
    ELSE FirstMissingFrom(trail, i + 1)

Entry(lines) == [kind |-> "entry", lines |-> lines]

\* lines 46-57
FormatTrail(trail) ==
    IF FirstMissingFrom(trail, 1) # 0
    THEN [kind |-> "raise", exc |-> "KeyError",
          msg |-> TemplateKeys[FirstMissingFrom(trail, 1)]]
    ELSE Return(Entry(<<
            <<"Title", trail[Key("title")]>>,
            <<"URL", trail[Key("url")]>>,
            <<"Distance", trail[KDistancia]>>,
            <<"Elevation gain", trail[KDesnivelPos]>>,
            <<"Elevation loss", trail[KDesnivelNeg]>>,
            <<"Difficulty ", FormatDifficulty(trail)>>,
            <<"Maximum altitude", trail[KAltMax]>>,
            <<"TrailRank", trail[KTrailRank]>>,
            <<"Minimum altitude", trail[KAltMin]>>,
            <<"Trail type", trail[KTipo]>>
         >>))

(***************************************************************************)
(* wikiloc.py:89-128  extract_geometry                                     *)
(*                                                                         *)
(* A line of the page: [match: it contains "var mapData =",                *)
(*   exc: the exception its decoding (lines 96-115) raises, "none" when it *)
(*        decodes, rec: the first record of its mapData list].             *)
(* Decode failures and the classes Python raises for them:                 *)
(*   malformed JSON                      json.JSONDecodeError              *)
(*   a key of the record missing         KeyError                          *)
(*   an empty mapData list, 2D points    IndexError                        *)
(*   base64 with incorrect padding       binascii.Error                    *)
(*   JSON that is a list, a number or    TypeError                         *)
(*     null; a geom that is not a string                                   *)
(*   a payload wkbparse cannot decode    the binding's error (ValueError)  *)
(***************************************************************************)
\* line 124, the except clause
CaughtDecodeErrors == {"JSONDecodeError", "KeyError", "IndexError", "binascii.Error"}

EmptyGeometry == [type |-> "dict", empty |-> TRUE]

\* Path(prettyURL).stem: the last path segment
Stem(path) == IF path = <<>> THEN "" ELSE path[Len(path)]

\* lines 101-123
DecodeLine(line) ==
    IF line.exc # "none" THEN Raise(line.exc)
    ELSE Return([type |-> "dict", empty |-> FALSE,
                 name |-> line.rec.nom,
                 slug |-> Stem(line.rec.prettyURL),
                 coordinates |-> IF line.rec.geomtype = "LineString"
                                 THEN line.rec.coords ELSE <<>>,
                 start_url |-> <<GOOGLE_MAPS_LOCATION, line.rec.blat, ",", line.rec.blng>>,
                 end_url |-> <<GOOGLE_MAPS_LOCATION, line.rec.elat, ",", line.rec.elng>>])

\* lines 92-128
RECURSIVE ExtractGeometry(_)
ExtractGeometry(lines) ==
    IF lines = <<>> THEN Return(EmptyGeometry)
    ELSE IF ~Head(lines).match THEN ExtractGeometry(Tail(lines))
    ELSE IF DecodeLine(Head(lines)).kind = "return" THEN DecodeLine(Head(lines))
    ELSE IF DecodeLine(Head(lines)).exc \in CaughtDecodeErrors
         THEN ExtractGeometry(Tail(lines))
         ELSE DecodeLine(Head(lines))

(***************************************************************************)
(* wikiloc.py:130-157  create_kml                                          *)
(*                                                                         *)
(* The file system: [dirs, files]; a file is [path, kml].                  *)
(***************************************************************************)
CreateKml(name, slug, coordinates, disk) ==
    LET kml == [name |-> name, line |-> coordinates,
                points |-> IF coordinates # <<>>
                           THEN <<[name |-> "Start", at |-> coordinates[1]],
                                  [name |-> "End", at |-> coordinates[Len(coordinates)]]>>
                           ELSE <<>>]
        kml_path == <<"routes", slug, ".kml">>
    IN  IF "routes" \notin disk.dirs
        THEN [out |-> Raise("FileNotFoundError"), disk |-> disk]
        ELSE [out |-> Return(kml_path),
              disk |-> [disk EXCEPT !.files =
                            {f \in @ : f.path # kml_path} \cup {[path |-> kml_path, kml |-> kml]}]]

\* a call create_kml(*args): three positional parameters, none with a default
CallCreateKml(args, disk) ==
    IF Len(args) # 3
    THEN [out |-> Raise("TypeError"), disk |-> disk]
    ELSE CreateKml(args[1], args[2], args[3], disk)

(***************************************************************************)
(* Values on the wire.                                                     *)
(*                                                                         *)
(* A str value: [type "str", empty: it is "", mentionsSpas: it contains    *)
(*   the substring "spas", doc: its statistics markup, lines: its lines    *)
(*   as extract_geometry sees them].                                       *)
(* A dict value parsed from JSON: [type "dict", empty: it is {}, hasSpas:  *)
(*   it has the key "spas", spas: the list under that key].                *)
(***************************************************************************)
NoDoc == [section |-> FALSE, items |-> <<>>]
StrVal(empty, mentionsSpas, doc, lines) ==
    [type |-> "str", empty |-> empty, mentionsSpas |-> mentionsSpas,
     doc |-> doc, lines |-> lines]
DictVal(empty, hasSpas, spas) ==
    [type |-> "dict", empty |-> empty, hasSpas |-> hasSpas, spas |-> spas]

JsonBody(value, mentionsSpas) ==
    [valid |-> TRUE, json |-> value, text |-> StrVal(FALSE, mentionsSpas, NoDoc, <<>>)]
TextBody(strval) == [valid |-> FALSE, json |-> None, text |-> strval]

CTypeJson == <<"application/json">>
CTypeJsonCharset == <<"application/json", ";", SP, "charset=utf-8">>
CTypeHtml == <<"text/html", ";", SP, "charset=utf-8">>
CTypeMissing == <<>>

NetError == [net |-> "error", status |-> 0, ctype |-> CTypeMissing, body |-> TextBody(StrVal(TRUE, FALSE, NoDoc, <<>>))]
Response(status, ctype, body) == [net |-> "ok", status |-> status, ctype |-> ctype, body |-> body]

(***************************************************************************)
(* wikiloc.py:159-218  search_trails                                       *)
(***************************************************************************)
MsgUnable == [kind |-> "msg", text |-> "Unable to fetch trails or no trails found."]
MsgNoTrails == [kind |-> "msg", text |-> "No trails found for this search."]
Separator == [kind |-> "sep", text |-> "\n---\n"]

\* bool(data) is False: None, "" and {}
Falsy(d) == d.type = "none" \/ d.empty

\* "spas" in data: a key of a dict, a substring of a str
SpasIn(d) ==
    CASE d.type = "dict" -> d.hasSpas
      [] d.type = "str" -> d.mentionsSpas
      [] OTHER -> FALSE

\* data["spas"]: a str is indexed by integers only
GetSpas(d) == IF d.type = "dict" THEN Return(d.spas) ELSE Raise("TypeError")

\* lines 187-191: the outcome decided by the search response alone, or
\* "continue" with the candidates to enrich
AfterSearch(d) ==
    IF Falsy(d) \/ ~SpasIn(d) THEN Return(<<MsgUnable>>)
    ELSE IF GetSpas(d).kind = "raise" THEN GetSpas(d)
    ELSE IF GetSpas(d).value = <<>> THEN Return(<<MsgNoTrails>>)
    ELSE [kind |-> "continue", value |-> GetSpas(d).value]

\* fetching capped by max_results
LoopSpasCapped(spas, m) == SubSeq(spas, 1, Min(m, Len(spas)))

\* line 195: every candidate is enriched, whatever max_results is
LoopSpas(spas, m) == spas

\* lines 196-204
Summary(spa) ==
    (Key("title") :> <<spa.name>>)
    @@ (Key("url") :> <<"https://es.wikiloc.com", spa.prettyURL>>)
    @@ (Key("distance_km") :> <<spa.distance>>)
    @@ (Key("slope") :> <<spa.slope>>)
    @@ (Key("author") :> <<spa.author>>)
    @@ (Key("location") :> <<spa.near>>)
    @@ (Key("trailrank") :> <<spa.trailrank>>)

\* dict.update
DictUpdate(d, e) == [k \in DOMAIN d \cup DOMAIN e |-> IF k \in DOMAIN e THEN e[k] ELSE d[k]]

\* lines 196-211
Enrich(spa, response) ==
    IF response.type = "str"
    THEN DictUpdate(Summary(spa), ExtractTrailStatistics(response.doc))
    ELSE Summary(spa)

\* trails[:m]
SlicePrefix(s, m) ==
    IF m >= 0 THEN SubSeq(s, 1, Min(m, Len(s)))
    ELSE SubSeq(s, 1, IF Len(s) + m > 0 THEN Len(s) + m ELSE 0)

\* sep.join(entries)
RECURSIVE Join(_, _)
Join(sep, entries) ==
    IF entries = <<>> THEN <<>>
    ELSE IF Len(entries) = 1 THEN entries
    ELSE <<Head(entries), sep>> \o Join(sep, Tail(entries))

\* the list comprehension of line 216: the first format_trail that raises
\* ends it
RECURSIVE FormatAll(_)
FormatAll(ts) ==
    IF ts = <<>> THEN Return(<<>>)
    ELSE IF FormatTrail(Head(ts)).kind = "raise" THEN FormatTrail(Head(ts))
    ELSE IF FormatAll(Tail(ts)).kind = "raise" THEN FormatAll(Tail(ts))
    ELSE Return(<<FormatTrail(Head(ts)).value>> \o FormatAll(Tail(ts)).value)

\* lines 216-218
FormatTop(ts, m) ==
    IF FormatAll(SlicePrefix(ts, m)).kind = "raise" THEN FormatAll(SlicePrefix(ts, m))
    ELSE Return(Join(Separator, FormatAll(SlicePrefix(ts, m)).value))

(***************************************************************************)
(* server.py:36-81  get_route_geometry                                     *)
(*                                                                         *)
(* A route URL: [prefixOk: it starts with "https://es.wikiloc.com/",       *)
(*               last: its last path segment, split at "-"].               *)
(***************************************************************************)
RaiseMsg(e, m) == [kind |-> "raise", exc |-> e, msg |-> m]

\* os.makedirs("routes", exist_ok=True)
MakeDirs(disk) == [disk EXCEPT !.dirs = @ \cup {"routes"}]

\* lines 63-81, reached with a non-empty geometry
WriteAndRespond(route_url, coordinates, disk) ==
    LET route_id == Head(route_url.last)
        kml_path == <<"routes", "route_", route_id, ".kml">>
        made == CallCreateKml(<<coordinates, kml_path>>, MakeDirs(disk))
    IN  IF made.out.kind = "raise" THEN made
        ELSE \* coordinates[0].lat: coordinates is a dict without the key 0
             [out |-> Raise("KeyError"), disk |-> made.disk]

\* the tool without the check of line 60
AfterFetchUnchecked(route_url, html, disk) ==
    IF html.type # "str"
    THEN [out |-> RaiseMsg("ValueError", "Failed to fetch route data"), disk |-> disk]
    ELSE IF ExtractGeometry(html.lines).kind = "raise"
    THEN [out |-> ExtractGeometry(html.lines), disk |-> disk]
    ELSE WriteAndRespond(route_url, ExtractGeometry(html.lines).value, disk)

\* lines 55-81
AfterFetch(route_url, html, disk) ==
    IF html.type # "str"
    THEN [out |-> RaiseMsg("ValueError", "Failed to fetch route data"), disk |-> disk]
    ELSE IF ExtractGeometry(html.lines).kind = "raise"
    THEN [out |-> ExtractGeometry(html.lines), disk |-> disk]
    ELSE IF ExtractGeometry(html.lines).value.empty
    THEN [out |-> RaiseMsg("ValueError", "No route geometry found"), disk |-> disk]
    ELSE WriteAndRespond(route_url, ExtractGeometry(html.lines).value, disk)

(***************************************************************************)
(* Inputs.                                                                 *)
(***************************************************************************)
\* sequences over S of length at most n
SeqsUpTo(S, n) == UNION {[1..k -> S] : k \in 0..n}

Injective(f) == \A i, j \in DOMAIN f : f[i] = f[j] => i = j

Spa(name, path, rank) ==
    [name |-> name, prettyURL |-> path, distance |-> "10.5", slope |-> "500",
     author |-> "u1", near |-> "Queralbs", trailrank |-> rank]
Spas ==
    {Spa("Ruta A", "/rutas-senderismo/a-1", "10"),
     Spa("Ruta B", "/rutas-senderismo/b-2", "90"),
     Spa("Ruta C", "/rutas-senderismo/c-3", "50")}
CandLists == {l \in SeqsUpTo(Spas, MaxCands) : Injective(l)}

\* the items of a detail page
ItemDificultad(d) == DItem(Dt(<<"Dificultad", NBSP, "técnica">>), Dd(<<TextNode(d)>>))
ItemDistancia == DItem(Dt(<<"Distancia">>), Dd(<<TextNode(<<"10,5", NBSP, "km">>)>>))
ItemDesnivelPos == DItem(Dt(<<"Desnivel", NBSP, "positivo">>), Dd(<<TextNode(<<"500", NBSP, "m">>)>>))
ItemDesnivelNeg == DItem(Dt(<<"Desnivel", NBSP, "negativo">>), Dd(<<TextNode(<<"480", NBSP, "m">>)>>))
ItemAltMax == DItem(Dt(<<"Altitud", NBSP, "máxima">>), Dd(<<TextNode(<<"1500", NBSP, "m">>)>>))
ItemTrailRank == DItem(Dt(<<"TrailRank", NBSP>>), Dd(<<Span(<<"85">>), TextNode(<<SP, "5.0">>)>>))
ItemAltMin == DItem(Dt(<<"Altitud", NBSP, "mínima">>), Dd(<<TextNode(<<"1000", NBSP, "m">>)>>))
ItemTipo == DItem(Dt(<<"Tipo", NBSP, "de", NBSP, "ruta">>), Dd(<<TextNode(<<"Circular">>)>>))

FullDoc(d) ==
    [section |-> TRUE,
     items |-> <<ItemDificultad(d), ItemDistancia, ItemDesnivelPos, ItemDesnivelNeg,
                 ItemAltMax, ItemTrailRank, ItemAltMin, ItemTipo>>]
NoDifficultyDoc ==
    [section |-> TRUE,
     items |-> <<ItemDistancia, ItemDesnivelPos, ItemDesnivelNeg,
                 ItemAltMax, ItemTrailRank, ItemAltMin, ItemTipo>>]
PartialDoc == [section |-> TRUE, items |-> <<ItemDificultad(<<"Fácil">>), ItemDistancia>>]
NoSectionDoc == [section |-> FALSE, items |-> FullDoc(<<"Fácil">>).items]

HtmlPage(doc, lines) == Response(200, CTypeHtml, TextBody(StrVal(FALSE, FALSE, doc, lines)))
ErrorPage(status) == Response(status, CTypeHtml, TextBody(StrVal(FALSE, FALSE, NoDoc, <<>>)))
JsonReply(value, mentionsSpas) == Response(200, CTypeJsonCharset, JsonBody(value, mentionsSpas))

\* what the upstream may answer to a detail-page request
DetailWires ==
    {NetError, ErrorPage(404), JsonReply(DictVal(FALSE, FALSE, <<>>), FALSE),
     HtmlPage(FullDoc(<<"Moderado">>), <<>>), HtmlPage(NoDifficultyDoc, <<>>),
     HtmlPage(PartialDoc, <<>>), HtmlPage(NoSectionDoc, <<>>)}

\* what the upstream may answer to the search request
SearchBodies ==
    {JsonBody(DictVal(FALSE, TRUE, l), TRUE) : l \in CandLists}
    \cup {JsonBody(DictVal(FALSE, FALSE, <<>>), FALSE),
          JsonBody(DictVal(TRUE, FALSE, <<>>), FALSE),
          TextBody(StrVal(FALSE, FALSE, NoDoc, <<>>)),
          TextBody(StrVal(FALSE, TRUE, NoDoc, <<>>)),
          TextBody(StrVal(TRUE, FALSE, NoDoc, <<>>))}
SearchWires ==
    {NetError}
    \cup {Response(st, ct, b) : st \in {200, 500}, ct \in {CTypeJsonCharset, CTypeHtml}, b \in SearchBodies}

\* what make_wikiloc_request may meet, called on its own
RequestWires ==
    {NetError}
    \cup {Response(st, ct, b) :
            st \in {200, 204, 301, 404, 500},
            ct \in {CTypeJson, CTypeJsonCharset, CTypeHtml, CTypeMissing},
            b \in {JsonBody(DictVal(FALSE, TRUE, <<>>), TRUE),
                   TextBody(StrVal(FALSE, FALSE, NoDoc, <<>>)),
                   TextBody(StrVal(TRUE, FALSE, NoDoc, <<>>))}}

\* documents handed to extract_trail_statistics on its own
StatDts ==
    {NoDt, Dt(<<"TrailRank", NBSP>>), Dt(<<"Dificultad", NBSP, "técnica">>),
     Dt(<<SP, "Mi", NBSP, "TrailRank">>)}
StatDds ==
    {NoDd,
     Dd(<<>>),
     Dd(<<TextNode(<<"10,5", NBSP, "km", SP>>)>>),
     Dd(<<Span(<<NBSP, "85">>), TextNode(<<SP, "de">>), Span(<<"100">>)>>),
     Dd(<<Anchor(<<"info">>), Span(<<"85">>)>>)}
StatItems == {DItem(dt, dd) : dt \in StatDts, dd \in StatDds}
StatDocs == {[section |-> b, items |-> l] : b \in BOOLEAN, l \in SeqsUpTo(StatItems, MaxItems)}

\* trails handed to format_trail on its own
DifficultyValues ==
    {<<"Fácil">>, <<"Moderado">>, <<"Difícil">>, <<"Muy", SP, "Difícil">>,
     <<"Solo", SP, "expertos">>, <<"Extremo">>, <<"fácil">>, <<"Easy">>, <<>>}
Without(d, k) == [x \in DOMAIN d \ {k} |-> d[x]]
FormatTrails ==
    LET full(spa, dv) == DictUpdate(Summary(spa), ExtractTrailStatistics(FullDoc(dv)))
        base == {full(spa, dv) : spa \in Spas, dv \in DifficultyValues}
    IN  base
        \cup {Without(t, KDificultad) : t \in base}
        \cup {Without(t, KTipo) : t \in base}
        \cup {Summary(spa) : spa \in Spas}

\* pages handed to extract_geometry
MapRecord(nom, geomtype, coords) ==
    [nom |-> nom, prettyURL |-> <<"rutas-senderismo", "test-trail-123">>,
     geomtype |-> geomtype, coords |-> coords,
     blat |-> "42.39", blng |-> "2.15", elat |-> "42.40", elng |-> "2.16"]
TrackRecord ==
    MapRecord("Test Trail", "LineString", <<<<"2.15", "42.39", "1200">>, <<"2.16", "42.40", "1300">>>>)
PointRecord == MapRecord("Test Point", "Point", <<<<"2.15", "42.39", "1200">>>>)
DecodeErrors ==
    {"JSONDecodeError", "KeyError", "IndexError", "binascii.Error", "TypeError", "ValueError"}
PageLines ==
    {[match |-> FALSE, exc |-> "none", rec |-> TrackRecord],
     [match |-> TRUE, exc |-> "none", rec |-> TrackRecord],
     [match |-> TRUE, exc |-> "none", rec |-> PointRecord]}
    \cup {[match |-> TRUE, exc |-> e, rec |-> TrackRecord] : e \in DecodeErrors}
Pages == SeqsUpTo(PageLines, MaxLines)

RouteUrls ==
    {[prefixOk |-> TRUE, last |-> <<"test", "trail", "123">>],
     [prefixOk |-> FALSE, last |-> <<"test", "trail", "123">>]}

\* what the upstream may answer to the tool's request
ToolWires ==
    {NetError, ErrorPage(404), JsonReply(DictVal(FALSE, FALSE, <<>>), FALSE)}
    \cup {HtmlPage(NoDoc, l) : l \in Pages}

(***************************************************************************)
(* The state machine.                                                      *)
(*   op      the operation in progress ("idle": none)                      *)
(*   pc      its position                                                  *)
(*   log     the URLs of the GETs it has issued, in order                  *)
(*   inflight the number of GETs issued and not yet completed              *)
(*   max_results, data, trails   the locals of search_trails               *)
(*   arg     the argument of the operation; for search_trails, the record  *)
(*           of what make_wikiloc_request returned for each candidate      *)
(*   result  the outcome of the operation                                  *)
(*   fs      the file system                                               *)
(***************************************************************************)
Init ==
    /\ op = "idle"
    /\ pc = "idle"
    /\ log = <<>>
    /\ inflight = 0
    /\ max_results = 0
    /\ data = None
    /\ trails = <<>>
    /\ arg = NoArg
    /\ result = NoResult
    /\ fs = [dirs |-> {}, files |-> {}]

\* make_wikiloc_request, line 31: the GET is sent
CallMakeWikilocRequest ==
    /\ op = "idle"
    /\ op' = "request"
    /\ pc' = "sent"
    /\ log' = <<WIKILOC_API_BASE>>
    /\ inflight' = 1
    /\ UNCHANGED <<max_results, data, trails, arg, result, fs>>

\* make_wikiloc_request, lines 31-41: the GET completes
RequestDone ==
    /\ op = "request" /\ pc = "sent"
    /\ \E wire \in RequestWires :
        /\ arg' = [type |-> "wire", wire |-> wire]
        /\ result' = MakeWikilocRequest(wire)
    /\ pc' = "done"
    /\ inflight' = 0
    /\ UNCHANGED <<op, log, max_results, data, trails, fs>>

CallExtractTrailStatistics ==
    /\ op = "idle"
    /\ \E doc \in StatDocs :
        /\ arg' = [type |-> "doc", doc |-> doc]
        /\ result' = Return(ExtractTrailStatistics(doc))
    /\ op' = "stats"
    /\ pc' = "done"
    /\ UNCHANGED <<log, inflight, max_results, data, trails, fs>>

CallFormatTrail ==
    /\ op = "idle"
    /\ \E trail \in FormatTrails :
        /\ arg' = [type |-> "trail", trail |-> trail]
        /\ result' = FormatTrail(trail)
    /\ op' = "format"
    /\ pc' = "done"
    /\ UNCHANGED <<log, inflight, max_results, data, trails, fs>>

CallExtractGeometry ==
    /\ op = "idle"
    /\ \E page \in Pages :
        /\ arg' = [type |-> "page", lines |-> page]
        /\ result' = ExtractGeometry(page)
    /\ op' = "extract"
    /\ pc' = "done"
    /\ UNCHANGED <<log, inflight, max_results, data, trails, fs>>

\* search_trails, lines 174-185: the search request is sent
CallSearchTrails ==
    /\ op = "idle"
    /\ \E m \in 0..MaxResults : max_results' = m
    /\ op' = "search"
    /\ pc' = "search_sent"
    /\ log' = <<WIKILOC_API_BASE>>
    /\ inflight' = 1
    /\ arg' = [type |-> "search", responses |-> <<>>]
    /\ UNCHANGED <<data, trails, result, fs>>

\* search_trails, lines 185-194: the search request completes
SearchReply ==
    /\ op = "search" /\ pc = "search_sent"
    /\ \E wire \in SearchWires :
        /\ data' = MakeWikilocRequest(wire).value
        /\ IF AfterSearch(data').kind = "continue"
           THEN pc' = "loop" /\ result' = result
           ELSE pc' = "done" /\ result' = AfterSearch(data')
    /\ inflight' = 0
    /\ UNCHANGED <<op, log, max_results, trails, arg, fs>>

\* search_trails, lines 195-207: the next candidate's detail page is requested
DetailSend ==
    /\ op = "search" /\ pc = "loop"
    /\ Len(trails) < Len(LoopSpas(data.spas, max_results))
    /\ log' = Append(log, Summary(LoopSpas(data.spas, max_results)[Len(trails) + 1])[Key("url")])
    /\ inflight' = inflight + 1
    /\ pc' = "detail_sent"
    /\ UNCHANGED <<op, max_results, data, trails, arg, result, fs>>

\* search_trails, lines 207-213: the detail request completes
DetailReply ==
    /\ op = "search" /\ pc = "detail_sent"
    /\ \E wire \in DetailWires :
        LET response == MakeWikilocRequest(wire).value
        IN  /\ trails' = Append(trails, Enrich(LoopSpas(data.spas, max_results)[Len(trails) + 1], response))
            /\ arg' = [arg EXCEPT !.responses = Append(@, response)]
    /\ inflight' = inflight - 1
    /\ pc' = "loop"
    /\ UNCHANGED <<op, log, max_results, data, result, fs>>

\* search_trails, lines 215-218
FormatResults ==
    /\ op = "search" /\ pc = "loop"
    /\ Len(trails) = Len(LoopSpas(data.spas, max_results))
    /\ result' = FormatTop(trails, max_results)
    /\ pc' = "done"
    /\ UNCHANGED <<op, log, inflight, max_results, data, trails, arg, fs>>

\* get_route_geometry, lines 49-54
CallGetRouteGeometry ==
    /\ op = "idle"
    /\ \E route_url \in RouteUrls :
        /\ arg' = [type |-> "tool", route_url |-> route_url, html |-> None]
        /\ IF ~route_url.prefixOk
           THEN /\ result' = RaiseMsg("ValueError", "Invalid Wikiloc URL. Must be a URL from es.wikiloc.com")
                /\ pc' = "done"
                /\ UNCHANGED <<log, inflight>>
           ELSE /\ result' = result
                /\ pc' = "tool_sent"
                /\ log' = <<route_url.last>>
                /\ inflight' = 1
    /\ op' = "tool"
    /\ UNCHANGED <<max_results, data, trails, fs>>

\* get_route_geometry, lines 54-81
ToolReply ==
    /\ op = "tool" /\ pc = "tool_sent"
    /\ \E wire \in ToolWires :
        LET html == MakeWikilocRequest(wire).value
            after == AfterFetch(arg.route_url, html, fs)
        IN  /\ arg' = [arg EXCEPT !.html = html]
            /\ result' = after.out
            /\ fs' = after.disk
    /\ inflight' = 0
    /\ pc' = "done"
    /\ UNCHANGED <<op, log, max_results, data, trails>>

\* the operation has ended; the next one starts from the same file system
Finish ==
    /\ pc = "done"
    /\ op' = "idle"
    /\ pc' = "idle"
    /\ log' = <<>>
    /\ inflight' = 0
    /\ max_results' = 0
    /\ data' = None
    /\ trails' = <<>>
    /\ arg' = NoArg
    /\ result' = NoResult
    /\ UNCHANGED fs

Next ==
    \/ CallMakeWikilocRequest
    \/ RequestDone
    \/ CallExtractTrailStatistics
    \/ CallFormatTrail
    \/ CallExtractGeometry
    \/ CallSearchTrails
    \/ SearchReply
    \/ DetailSend
    \/ DetailReply
    \/ FormatResults
    \/ CallGetRouteGeometry
    \/ ToolReply
    \/ Finish

Spec == Init /\ [][Next]_vars

(***************************************************************************)
(* Properties.                                                             *)
(***************************************************************************)
SearchDone == op = "search" /\ pc = "done"

\* the search response carries a non-empty candidate list
HasCandidates == data.type = "dict" /\ data.hasSpas /\ data.spas # <<>>

\* the response has no candidate-list key "spas": a failed fetch, or a value
\* that is not a mapping with that key
LacksSpasKey == ~(data.type = "dict" /\ data.hasSpas)

EmptySpasList == data.type = "dict" /\ data.hasSpas /\ data.spas = <<>>

\* C1: search_trails answers a response without the key "spas" (a failed
\* fetch included) with exactly the "Unable to fetch" message and an empty
\* list under the key with exactly the "No trails found" message, never one
\* message for the other case, and fetches no detail page in either case.
C1_MessagesByCase ==
    SearchDone =>
        /\ LacksSpasKey => result = Return(<<MsgUnable>>) /\ Len(log) = 1
        /\ EmptySpasList => result = Return(<<MsgNoTrails>>) /\ Len(log) = 1
        /\ result = Return(<<MsgUnable>>) => LacksSpasKey
        /\ result = Return(<<MsgNoTrails>>) => EmptySpasList

EntryCount(text) == Cardinality({i \in 1..Len(text) : text[i].kind = "entry"})

\* n entries, each two joined by the separator
JoinedEntries(text, n) ==
    /\ EntryCount(text) = n
    /\ Len(text) = (IF n = 0 THEN 0 ELSE 2 * n - 1)
    /\ \A i \in 1..Len(text) : text[i].kind = (IF i % 2 = 1 THEN "entry" ELSE "sep")
    /\ \A i \in 1..Len(text) : text[i].kind = "sep" => text[i] = Separator

\* C2: for a non-empty candidate list of length L and max_results = M,
\* search_trails returns a text of exactly min(L, M) rendered entries joined
\* by the separator "\n---\n".
C2_MinEntriesReturned ==
    (SearchDone /\ HasCandidates) =>
        /\ result.kind = "return"
        /\ JoinedEntries(result.value, Min(Len(data.spas), max_results))

TitleOf(entry) == entry.lines[1][2]

\* C3: a candidate whose detail fetch returned no result or a value that is
\* not text keeps only its summary fields, and search_trails still returns
\* the formatted result, that candidate's entry included.
C3_FailedDetailDegrades ==
    (SearchDone /\ HasCandidates) =>
        \A i \in 1..Len(arg.responses) :
            arg.responses[i].type # "str" =>
                /\ trails[i] = Summary(data.spas[i])
                /\ result.kind = "return"
                /\ i <= Min(Len(data.spas), max_results) =>
                        /\ Len(result.value) >= 2 * i - 1
                        /\ TitleOf(result.value[2 * i - 1]) = <<data.spas[i].name>>

DetailUrl(spa) == <<"https://es.wikiloc.com", spa.prettyURL>>

RequestFinished == op = "request" /\ pc = "done"

JsonContentType(wire) == \E i \in 1..Len(wire.ctype) : wire.ctype[i] = "application/json"

RequestFailure(wire) ==
    \/ wire.net = "error"
    \/ wire.status < 200 \/ wire.status > 299
    \/ JsonContentType(wire) /\ ~wire.body.valid

\* C5: make_wikiloc_request never raises; a network error, a non-2xx status
\* or a malformed body gives None; a successful response gives the parsed
\* JSON when the content type contains application/json and the raw text
\* otherwise; one GET is issued per call.
C5_RequestNeverRaises ==
    RequestFinished =>
        /\ result.kind = "return"
        /\ Len(log) = 1 /\ inflight = 0
        /\ RequestFailure(arg.wire) => result.value = None
        /\ (~RequestFailure(arg.wire) /\ JsonContentType(arg.wire)) => result.value = arg.wire.body.json
        /\ (~RequestFailure(arg.wire) /\ ~JsonContentType(arg.wire)) => result.value = arg.wire.body.text

\* a JSON content type with a body that is not JSON
C5_Witness ==
    /\ RequestFinished
    /\ arg.wire.net = "ok" /\ arg.wire.status = 200 /\ JsonContentType(arg.wire) /\ ~arg.wire.body.valid
    /\ result = Return(None)

ExtractFinished == op = "extract" /\ pc = "done"

\* the candidate lines of a page that decode
Decodable(lines) == {i \in 1..Len(lines) : lines[i].match /\ lines[i].exc = "none"}

FirstOf(S) == CHOOSE i \in S : \A j \in S : i <= j

\* C6: extract_geometry never raises: a candidate line that fails to decode
\* is skipped, the result is the geometry of the first candidate line that
\* decodes, and the empty mapping when there is none.
C6_ExtractNeverRaises ==
    ExtractFinished =>
        /\ result.kind = "return"
        /\ Decodable(arg.lines) = {} => result.value = EmptyGeometry
        /\ Decodable(arg.lines) # {} =>
                /\ ~result.value.empty
                /\ result.value.name = arg.lines[FirstOf(Decodable(arg.lines))].rec.nom

ToolFetched == op = "tool" /\ pc = "done" /\ log # <<>>

\* C7: given a detail URL whose page is fetched as HTML and holds a decodable
\* geometry block, the tool writes one track file under routes/ and returns
\* a text naming the .kml path and the two map links; the file exists when
\* it returns.
C7_ToolWritesTrack ==
    (ToolFetched /\ arg.html.type = "str" /\ Decodable(arg.html.lines) # {}
       /\ \A i \in 1..Len(arg.html.lines) : arg.html.lines[i].exc = "none") =>
        /\ result.kind = "return"
        /\ result.value.type = "str"
        /\ \E f \in fs.files : f.path[1] = "routes"

\* C8: the tool raises an explicit error, and writes no track file, whenever
\* the fetch gives no result or a value that is not a string, or the
\* extraction gives the empty result; it never returns successfully then.
C8_ToolRaisesOnNoGeometry ==
    ToolFetched =>
        /\ arg.html.type # "str" =>
                /\ result = RaiseMsg("ValueError", "Failed to fetch route data")
                /\ fs.files = {}
        /\ (arg.html.type = "str" /\ ExtractGeometry(arg.html.lines) = Return(EmptyGeometry)) =>
                /\ result = RaiseMsg("ValueError", "No route geometry found")
                /\ fs.files = {}

\* an HTML page whose only candidate line lacks a key
C8_Witness ==
    /\ ToolFetched
    /\ arg.html.type = "str"
    /\ \E i \in 1..Len(arg.html.lines) : arg.html.lines[i].match /\ arg.html.lines[i].exc = "KeyError"
    /\ result = RaiseMsg("ValueError", "No route geometry found")
    /\ fs.files = {}

StatsFinished == op = "stats" /\ pc = "done"

\* the items with both a label and a value element
Paired(doc) == {i \in 1..Len(doc.items) : doc.items[i].dt.present /\ doc.items[i].dd.present}

LabelOf(item) == ReplaceNbsp(Strip(item.dt.text))

\* the last paired item with the label k
LastWith(doc, k) ==
    CHOOSE i \in Paired(doc) :
        /\ LabelOf(doc.items[i]) = k
        /\ \A j \in Paired(doc) : LabelOf(doc.items[j]) = k => j <= i

Spans(dd) == {i \in 1..Len(dd.nodes) : dd.nodes[i].tag = "span"}

\* the nested elements of a value element, of any tag
SubElements(dd) == {i \in 1..Len(dd.nodes) : dd.nodes[i].tag # "text"}

\* C9 as stated: extract_trail_statistics never raises; without the
\* statistics region the mapping is empty; an item without a value element
\* is skipped; the item whose label is TrailRank maps to the text of the
\* first nested sub-element of its value, or to the empty string when there
\* is none; every other item maps to the full text of its value element.
C9_FirstSubElement ==
    StatsFinished =>
        /\ result.kind = "return"
        /\ ~arg.doc.section => DOMAIN result.value = {}
        /\ arg.doc.section =>
                /\ DOMAIN result.value = {LabelOf(arg.doc.items[i]) : i \in Paired(arg.doc)}
                /\ \A k \in DOMAIN result.value :
                    LET dd == arg.doc.items[LastWith(arg.doc, k)].dd
                    IN  IF k = <<"TrailRank">>
                        THEN IF SubElements(dd) = {}
                             THEN result.value[k] = <<>>
                             ELSE result.value[k] = Strip(dd.nodes[FirstOf(SubElements(dd))].text)
                        ELSE result.value[k] = ReplaceNbsp(GetTextStrip(dd.nodes))

\* C9, amended: extract_trail_statistics never raises; without the
\* statistics region the mapping is empty; an item without a value element
\* is skipped; an item whose label contains TrailRank maps to the text of
\* the first nested <span> of its value, or to the empty string when its
\* value has no <span>; every other item maps to the full text of its value
\* element; a label that occurs more than once keeps its last item's value.
C9_StatisticsMapping ==
    StatsFinished =>
        /\ result.kind = "return"
        /\ ~arg.doc.section => DOMAIN result.value = {}
        /\ arg.doc.section =>
                /\ DOMAIN result.value = {LabelOf(arg.doc.items[i]) : i \in Paired(arg.doc)}
                /\ \A k \in DOMAIN result.value :
                    LET dd == arg.doc.items[LastWith(arg.doc, k)].dd
                    IN  IF \E j \in 1..Len(k) : k[j] = "TrailRank"
                        THEN IF Spans(dd) = {}
                             THEN result.value[k] = <<>>
                             ELSE result.value[k] = Strip(dd.nodes[FirstOf(Spans(dd))].text)
                        ELSE result.value[k] = ReplaceNbsp(GetTextStrip(dd.nodes))

\* a TrailRank item whose value holds a link before its <span>, and an item
\* without a value element
C9_Witness ==
    /\ StatsFinished
    /\ arg.doc.section
    /\ Len(arg.doc.items) = 2
    /\ arg.doc.items[1] = DItem(Dt(<<"TrailRank", NBSP>>), Dd(<<Anchor(<<"info">>), Span(<<"85">>)>>))
    /\ arg.doc.items[2].dt.present /\ ~arg.doc.items[2].dd.present
    /\ arg.doc.items[2].dt.text = <<"Dificultad", NBSP, "técnica">>
    /\ DOMAIN result.value = {<<"TrailRank">>}
    /\ result.value[<<"TrailRank">>] = <<"85">>

FormatFinished == op = "format" /\ pc = "done"

\* the documented English equivalents
EnglishOf(d) ==
    CASE d = <<"Fácil">> -> <<"Easy">>
      [] d = <<"Moderado">> -> <<"Moderate">>
      [] d = <<"Difícil">> -> <<"Hard">>
      [] d = <<"Muy", SP, "Difícil">> -> <<"Very Hard">>
      [] d = <<"Solo", SP, "expertos">> -> <<"Experts Only">>
      [] OTHER -> <<"Unknown">>

\* C10: the difficulty field of a rendered entry is the English equivalent
\* of the trail's difficulty for the five known values and "Unknown" for any
\* other value and for an absent difficulty.
C10_DifficultyTranslated ==
    (FormatFinished /\ result.kind = "return") =>
        /\ result.value.lines[6][1] = "Difficulty "
        /\ KDificultad \in DOMAIN arg.trail => result.value.lines[6][2] = EnglishOf(arg.trail[KDificultad])
        /\ KDificultad \notin DOMAIN arg.trail => result.value.lines[6][2] = <<"Unknown">>

\* a rendered trail without a difficulty
C10_Witness ==
    /\ FormatFinished
    /\ result.kind = "return"
    /\ KDificultad \notin DOMAIN arg.trail
    /\ result.value.lines[6] = <<"Difficulty ", <<"Unknown">>>>

====
